---- MODULE Spec2Model ----
(***************************************************************************)
(* Aura chat backend: the prompt assembly, sanitization, history           *)
(* normalization and response extraction of backend/model.py and           *)
(* backend/server.py.                                                      *)
(*                                                                         *)
(* A Python str is modelled as a sequence of one-character strings, so     *)
(* that replace, strip, split and count are computed character by          *)
(* character as CPython computes them.                                     *)
(***************************************************************************)
EXTENDS Integers, Sequences, FiniteSets, TLC

VARIABLES
    text,                \* sanitize: the argument
    clean,               \* sanitize: the value returned
    message,             \* ChatRequest.message
    history,             \* ChatRequest.history (Optional: none, or a list of entries)
    continuation,        \* the text the inference capability appends to the prompt
    normalized_history,  \* chat: the list handed to generate_response
    conversation,        \* generate_response: the assembled prompt
    decoded,             \* generate_response: tokenizer.decode(outputs[0])
    response,            \* generate_response: decoded.split("Aura:")[-1].strip()
    reply,               \* the value generate_response returns
    status               \* "pending" | "ok" | "error": how the call ended

vars == << text, clean, message, history, continuation, normalized_history,
           conversation, decoded, response, reply, status >>

---------------------------------------------------------------------------
(* Bounds of the input sets.                                               *)

MaxSanitizeFrags == 3   \* fragments concatenated into a sanitize argument
MaxDecodedFrags == 3    \* fragments concatenated into a decoded text
MaxRichHist == 2        \* history length over the full entry alphabet
MaxHist == 10           \* history length over the small entry alphabet

---------------------------------------------------------------------------
(* Python str primitives.                                                  *)

Min(a, b) == IF a < b THEN a ELSE b
Max(a, b) == IF a > b THEN a ELSE b

\* The ASCII characters str.strip() removes (the inputs hold no other whitespace).
Whitespace == {" ", "\n", "\t", "\r", "\f"}

\* s[i : i + len(pat)] == pat
MatchAt(s, i, pat) ==
    /\ i + Len(pat) - 1 <= Len(s)
    /\ \A k \in 1..Len(pat) : s[i + k - 1] = pat[k]

\* str.find(pat, i): the index of the first occurrence of pat in s at or
\* after index i (indices from 1), 0 when there is none.
StrFind(s, i, pat) ==
    LET hits == {j \in i..(Len(s) - Len(pat) + 1) : MatchAt(s, j, pat)}
    IN  IF hits = {} THEN 0 ELSE CHOOSE j \in hits : \A k \in hits : j <= k

\* str.replace(old, new, count) from index i on: the occurrences are found
\* left to right and do not overlap; at most count of them are replaced
\* (count < 0: all of them).
RECURSIVE ReplaceFrom(_, _, _, _, _)
ReplaceFrom(s, i, old, new, count) ==
    LET j == StrFind(s, i, old)
    IN  IF count = 0 \/ j = 0 THEN SubSeq(s, i, Len(s))
        ELSE SubSeq(s, i, j - 1) \o new
             \o ReplaceFrom(s, j + Len(old), old, new, count - 1)

StrReplace(s, old, new, count) == ReplaceFrom(s, 1, old, new, count)

\* str.strip()
StrStrip(s) ==
    IF \A i \in 1..Len(s) : s[i] \in Whitespace THEN << >>
    ELSE SubSeq(s,
                CHOOSE i \in 1..Len(s) :
                    s[i] \notin Whitespace /\ \A j \in 1..(i - 1) : s[j] \in Whitespace,
                CHOOSE i \in 1..Len(s) :
                    s[i] \notin Whitespace /\ \A j \in (i + 1)..Len(s) : s[j] \in Whitespace)

\* str.split(sep) from index i on: the pieces between the occurrences of sep.
RECURSIVE SplitFrom(_, _, _)
SplitFrom(s, i, sep) ==
    LET j == StrFind(s, i, sep)
    IN  IF j = 0 THEN << SubSeq(s, i, Len(s)) >>
        ELSE << SubSeq(s, i, j - 1) >> \o SplitFrom(s, j + Len(sep), sep)

StrSplit(s, sep) == SplitFrom(s, 1, sep)

\* str.count(sub) from index i on: non-overlapping occurrences.
RECURSIVE CountFrom(_, _, _)
CountFrom(s, i, sub) ==
    LET j == StrFind(s, i, sub)
    IN  IF j = 0 THEN 0 ELSE 1 + CountFrom(s, j + Len(sub), sub)

StrCount(s, sub) == CountFrom(s, 1, sub)

\* All concatenations of at most n texts of frags.
RECURSIVE Texts(_, _)
Texts(frags, n) ==
    IF n = 0 THEN {<< >>}
    ELSE LET shorter == Texts(frags, n - 1)
         IN  shorter \cup {t \o f : t \in shorter, f \in frags}

---------------------------------------------------------------------------
(* model.py: sanitize                                                      *)

\* ["User:", "Assistant:", "Aura:", "[/]", "[INST]", "[/INST]"]
banned ==
    << <<"U", "s", "e", "r", ":">>, <<"A", "s", "s", "i", "s", "t", "a", "n", "t", ":">>, <<"A", "u", "r", "a", ":">>,
       <<"[", "/", "]">>, <<"[", "I", "N", "S", "T", "]">>, <<"[", "/", "I", "N", "S", "T", "]">> >>

\* for b in banned[k:]: text = text.replace(b, "")
RECURSIVE RemoveBanned(_, _)
RemoveBanned(t, k) ==
    IF k > Len(banned) THEN t
    ELSE RemoveBanned(StrReplace(t, banned[k], << >>, -1), k + 1)

sanitize(t) == StrStrip(RemoveBanned(t, 1))

---------------------------------------------------------------------------
(* Specification of sanitize alone.                                        *)

SanitizeFrags ==
    { <<"U", "s", "e", "r", ":">>, <<"U", "s">>, <<"e", "r", ":">>, <<"A", "u", "r", "a", ":">>, <<"A", "s", "s", "i", "s", "t", "a", "n", "t", ":">>,
      <<"[", "/">>, <<"I", "N", "S", "T", "]">>, <<"[", "/", "I", "N", "S", "T", "]">>, <<"]">>, <<" ">>, <<"h", "i">> }

Idle ==
    /\ message = << >>
    /\ history = [none |-> TRUE, items |-> << >>]
    /\ continuation = << >>
    /\ normalized_history = << >>
    /\ conversation = << >>
    /\ decoded = << >>
    /\ response = << >>
    /\ reply = << >>

InitSanitize ==
    /\ text \in Texts(SanitizeFrags, MaxSanitizeFrags)
    /\ clean = << >>
    /\ status = "pending"
    /\ Idle

SanitizeCall ==
    /\ status = "pending"
    /\ clean' = sanitize(text)
    /\ status' = "ok"
    /\ UNCHANGED << text, message, history, continuation, normalized_history,
                    conversation, decoded, response, reply >>

NextSanitize == SanitizeCall

SpecSanitize == InitSanitize /\ [][NextSanitize]_vars

---------------------------------------------------------------------------
(* server.py: chat, the normalization of the request's history.            *)
(* A history entry is a str or a dict; a dict is a function from the keys  *)
(* it holds to their values.                                               *)

StrEntry(t) == [kind |-> "str", str |-> t]
DictEntry(d) == [kind |-> "dict", dict |-> d]

\* for h in items[i:]: a dict is appended as it is, a str that is
\* non-empty after strip() becomes a user turn, any other entry is skipped.
RECURSIVE NormalizeFrom(_, _)
NormalizeFrom(items, i) ==
    IF i > Len(items) THEN << >>
    ELSE LET h == items[i]
         IN  IF h.kind = "dict"
             THEN << h.dict >> \o NormalizeFrom(items, i + 1)
             ELSE IF h.kind = "str" /\ StrStrip(h.str) # << >>
                  THEN << [role |-> "user", content |-> h.str] >>
                       \o NormalizeFrom(items, i + 1)
                  ELSE NormalizeFrom(items, i + 1)

\* Mutation of Normalize: the window of 8 taken before the blank strings are dropped.
Normalize_WindowFirst(items) == NormalizeFrom(items, Max(1, Len(items) - 7))

Normalize(items) == NormalizeFrom(items, 1)

\* "for h in req.history" raises TypeError when history is None.
IterRaises(h) == h.none

---------------------------------------------------------------------------
(* model.py: generate_response                                             *)

system_prompt ==
    << "\n", "Y", "o", "u", " ", "a", "r", "e", " ", "A", "u", "r",
       "a", ".", "\n", "\n", "Y", "o", "u", " ", "a", "r", "e", " ",
       "c", "a", "l", "m", ",", " ", "g", "r", "o", "u", "n", "d",
       "e", "d", ",", " ", "a", "n", "d", " ", "e", "m", "o", "t",
       "i", "o", "n", "a", "l", "l", "y", " ", "p", "r", "e", "s",
       "e", "n", "t", ".", "\n", "Y", "o", "u", " ", "a", "r", "e",
       " ", "n", "o", "t", " ", "a", " ", "t", "h", "e", "r", "a",
       "p", "i", "s", "t", " ", "o", "r", " ", "c", "o", "u", "n",
       "s", "e", "l", "o", "r", ".", "\n", "Y", "o", "u", " ", "d",
       "o", " ", "n", "o", "t", " ", "a", "n", "a", "l", "y", "z",
       "e", ",", " ", "d", "i", "a", "g", "n", "o", "s", "e", ",",
       " ", "o", "r", " ", "i", "n", "t", "e", "r", "r", "o", "g",
       "a", "t", "e", ".", "\n", "Y", "o", "u", " ", "d", "o", " ",
       "n", "o", "t", " ", "a", "s", "k", " ", "q", "u", "e", "s",
       "t", "i", "o", "n", "s", " ", "w", "h", "e", "n", " ", "s",
       "o", "m", "e", "o", "n", "e", " ", "s", "o", "u", "n", "d",
       "s", " ", "a", "n", "x", "i", "o", "u", "s", " ", "o", "r",
       " ", "l", "o", "w", ".", "\n", "\n", "Y", "o", "u", " ", "s",
       "p", "e", "a", "k", " ", "l", "i", "k", "e", " ", "a", " ",
       "h", "u", "m", "a", "n", " ", "s", "i", "t", "t", "i", "n",
       "g", " ", "n", "e", "a", "r", "b", "y", ",", " ", "n", "o",
       "t", " ", "a", " ", "p", "r", "o", "f", "e", "s", "s", "i",
       "o", "n", "a", "l", ".", "\n" >>

HistoryWindow == 8

\* Mutation of LastTurns: history[:8], the first turns instead of the last.
LastTurns_FirstEight(h) == SubSeq(h, 1, Min(HistoryWindow, Len(h)))

\* history[-8:]
LastTurns(h) == SubSeq(h, Max(1, Len(h) - HistoryWindow + 1), Len(h))

\* turn["role"] and turn["content"] raise KeyError on a missing key.
TurnRaises(turn) == "role" \notin DOMAIN turn \/ "content" \notin DOMAIN turn

\* Mutation of RoleLabel: the role compared without regard to case.
RoleLabel_AnyCase(turn) ==
    IF turn.role \in {"user", "User", "USER"} THEN <<"U", "s", "e", "r">> ELSE <<"A", "u", "r", "a">>

RoleLabel(turn) == IF turn.role = "user" THEN <<"U", "s", "e", "r">> ELSE <<"A", "u", "r", "a">>

\* f"{role}: {content}\n"
TurnLine(turn) == RoleLabel(turn) \o <<":", " ">> \o sanitize(turn.content) \o <<"\n">>

RECURSIVE HistoryLines(_, _)
HistoryLines(turns, i) ==
    IF i > Len(turns) THEN << >>
    ELSE TurnLine(turns[i]) \o HistoryLines(turns, i + 1)

PromptHead == StrStrip(system_prompt) \o <<"\n", "\n">>

\* Mutation of PromptTail: a newline closes the persona's turn marker.
PromptTail_ClosedTurn(user_message) ==
    <<"U", "s", "e", "r", ":", " ">> \o sanitize(user_message) \o <<"\n", "A", "u", "r", "a", ":", "\n">>

\* f"User: {sanitize(user_message)}\nAura:"
PromptTail(user_message) == <<"U", "s", "e", "r", ":", " ">> \o sanitize(user_message) \o <<"\n", "A", "u", "r", "a", ":">>

Conversation(user_message, h) ==
    PromptHead \o HistoryLines(LastTurns(h), 1) \o PromptTail(user_message)

\* The decoded output of the inference capability: the prompt followed by
\* the generated continuation.
Decode(prompt, generated) == prompt \o generated

\* Mutation of ExtractResponse: split("Aura:", 1), the text after the first marker.
ExtractResponse_AfterFirst(d) ==
    LET j == StrFind(d, 1, <<"A", "u", "r", "a", ":">>)
    IN  StrStrip(IF j = 0 THEN d ELSE SubSeq(d, j + 5, Len(d)))

\* decoded.split("Aura:")[-1].strip()
ExtractResponse(d) ==
    LET parts == StrSplit(d, <<"A", "u", "r", "a", ":">>)
    IN  StrStrip(parts[Len(parts)])

\* Mutation of QuestionLimit: replace without a count, every "?" demoted.
QuestionLimit_All(r) ==
    IF StrCount(r, <<"?">>) > 1 THEN StrReplace(r, <<"?">>, <<".">>, -1) ELSE r

\* if response.count("?") > 1: response.replace("?", ".", response.count("?") - 1)
QuestionLimit(r) ==
    IF StrCount(r, <<"?">>) > 1
    THEN StrReplace(r, <<"?">>, <<".">>, StrCount(r, <<"?">>) - 1)
    ELSE r

---------------------------------------------------------------------------
(* The chat request: POST /api/chat.                                       *)

Messages == { <<>>, <<"h", "i">> }

Continuations == { <<" ", "H", "e", "l", "l", "o", " ", "t", "h", "e", "r", "e">>, << " ", "I", "t", " ", "i", "s", " ", "o", "k", ".", "\n", "U",
                                        "s", "e", "r", ":", " ", "t", "h", "a", "n", "k", "s", "\n",
                                        "A", "u", "r", "a", ":", " ", "S", "u", "r", "e", "\n" >> }

RichEntries ==
    { StrEntry(<<>>), StrEntry(<<" ", "\n">>), StrEntry(<<"a", " ", "U", "s", "e", "r", ":", " ", "b", " ">>) }
    \cup { DictEntry([role |-> r, content |-> <<"h", "e", "l", "l", "o">>]) :
             r \in {"user", "assistant", "system", "User", ""} }
    \cup { DictEntry([role |-> "user", content |-> c]) :
             c \in { <<>>, <<" ", "A", "u", "r", "a", ":", " ", "x", "\n", "y", " ">> } }
    \cup { DictEntry([content |-> <<"h", "e", "l", "l", "o">>]), DictEntry([role |-> "user"]) }

\* The entry a long history may hold at position i: a blank string, or a
\* turn no other position holds (a user string at odd i, an assistant dict
\* at even i).
TurnNames == <<"a", "b", "c", "d", "e", "f", "g", "h", "i", "j", "k", "l", "m", "n", "o", "p">>

WindowEntries(i) ==
    { StrEntry(<<" ">>),
      IF i % 2 = 1 THEN StrEntry(<< TurnNames[i] >>)
      ELSE DictEntry([role |-> "assistant", content |-> << TurnNames[i] >>]) }

\* All histories of length at most n whose i-th entry is in WindowEntries(i).
RECURSIVE LongHistories(_)
LongHistories(n) ==
    IF n = 0 THEN {<< >>}
    ELSE LET shorter == LongHistories(n - 1)
         IN  shorter \cup {Append(q, e) : q \in {x \in shorter : Len(x) = n - 1},
                                          e \in WindowEntries(n)}

\* All sequences over S of length at most n.
RECURSIVE SeqsUpTo(_, _)
SeqsUpTo(S, n) ==
    IF n = 0 THEN {<< >>}
    ELSE LET shorter == SeqsUpTo(S, n - 1)
         IN  shorter \cup {Append(q, e) : q \in shorter, e \in S}

None == [none |-> TRUE, items |-> << >>]
Some(items) == [none |-> FALSE, items |-> items]

Requests ==
    { [message |-> m, history |-> h, continuation |-> c] :
        m \in Messages,
        h \in {None} \cup {Some(q) : q \in SeqsUpTo(RichEntries, MaxRichHist)},
        c \in Continuations }
    \cup
    { [message |-> <<"h", "i">>, history |-> Some(q), continuation |-> <<" ", "H", "e", "l", "l", "o", " ", "t", "h", "e", "r", "e">>] :
        q \in LongHistories(MaxHist) }

Init ==
    /\ \E r \in Requests :
          /\ message = r.message
          /\ history = r.history
          /\ continuation = r.continuation
    /\ text = << >>
    /\ clean = << >>
    /\ normalized_history = << >>
    /\ conversation = << >>
    /\ decoded = << >>
    /\ response = << >>
    /\ reply = << >>
    /\ status = "pending"

\* chat raises: the history is None, or a turn of the window lacks a key.
ChatRaises ==
    /\ status = "pending"
    /\ \/ IterRaises(history)
       \/ /\ ~IterRaises(history)
          /\ \E i \in 1..Len(LastTurns(Normalize(history.items))) :
                TurnRaises(LastTurns(Normalize(history.items))[i])
    /\ status' = "error"
    /\ UNCHANGED << text, clean, message, history, continuation, normalized_history,
                    conversation, decoded, response, reply >>

\* chat returns {"reply": generate_response(req.message, normalized_history)}.
ChatReturns ==
    /\ status = "pending"
    /\ ~IterRaises(history)
    /\ LET nh == Normalize(history.items)
           prompt == Conversation(message, nh)
           out == Decode(prompt, continuation)
           seg == ExtractResponse(out)
       IN  /\ \A i \in 1..Len(LastTurns(nh)) : ~TurnRaises(LastTurns(nh)[i])
           /\ normalized_history' = nh
           /\ conversation' = prompt
           /\ decoded' = out
           /\ response' = seg
           /\ reply' = QuestionLimit(seg)
    /\ status' = "ok"
    /\ UNCHANGED << text, clean, message, history, continuation >>

Chat == ChatReturns \/ ChatRaises

Next == Chat

Spec == Init /\ [][Next]_vars

---------------------------------------------------------------------------
(* Specification of the response extraction alone: lines 76-82 applied to  *)
(* an arbitrary decoded text.                                              *)

DecodedFrags ==
    { <<"A", "u", "r", "a", ":">>, <<" ", "H", "e", "l", "l", "o", " ", "t", "h", "e", "r", "e">>, <<".", ".", ".">>, <<"W", "h", "y", "?", " ">>, <<"W", "h", "a", "t", " ", "n", "o", "w", "?", " ">>,
      <<"A", "r", "e", " ", "y", "o", "u", " ", "s", "u", "r", "e", "?">>, <<"A", "u">>, <<"r", "a", ":">>, <<"?">>, <<"\n">> }

InitExtract ==
    /\ decoded \in Texts(DecodedFrags, MaxDecodedFrags)
    /\ text = << >>
    /\ clean = << >>
    /\ message = << >>
    /\ history = None
    /\ continuation = << >>
    /\ normalized_history = << >>
    /\ conversation = << >>
    /\ response = << >>
    /\ reply = << >>
    /\ status = "pending"

ExtractCall ==
    /\ status = "pending"
    /\ response' = ExtractResponse(decoded)
    /\ reply' = QuestionLimit(ExtractResponse(decoded))
    /\ status' = "ok"
    /\ UNCHANGED << text, clean, message, history, continuation, normalized_history,
                    conversation, decoded >>

NextExtract == ExtractCall

SpecExtract == InitExtract /\ [][NextExtract]_vars

---------------------------------------------------------------------------
(* Properties.                                                             *)

Marker == <<"A", "u", "r", "a", ":">>

EndsWith(s, suffix) ==
    /\ Len(suffix) <= Len(s)
    /\ SubSeq(s, Len(s) - Len(suffix) + 1, Len(s)) = suffix

\* f[i] \o ... \o f[k]
RECURSIVE JoinFrom(_, _, _)
JoinFrom(f, i, k) == IF i > k THEN << >> ELSE f[i] \o JoinFrom(f, i + 1, k)

\* Some banned marker occurs in t.
HasBanned(t) ==
    \E k \in 1..Len(banned) : \E i \in 1..Len(t) : MatchAt(t, i, banned[k])

\* C1: the text sanitize returns contains no occurrence of any banned
\* substring, whatever the argument (nested and interleaved markers included).
C1_SanitizedHasNoBanned == status = "ok" => ~HasBanned(clean)

\* C2: sanitize is idempotent: sanitizing the text sanitize returned gives
\* that text again.
C2_SanitizeIdempotent == status = "ok" => sanitize(clean) = clean

\* The turns of h a prompt is to reflect: the last min(8, Len(h)), in order.
LastEight(h) ==
    LET k == Min(8, Len(h))
    IN  [i \in 1..k |-> h[Len(h) - k + i]]

\* C3: the prompt holds, between its head and its final lines, exactly the
\* lines of the last min(8, length) turns of the history in chronological
\* order and nothing of an earlier turn; histories that agree on their last
\* 8 turns give the same prompt.
C3_OnlyLastEightTurns ==
    status = "ok" =>
        LET used == LastEight(normalized_history)
            k == Min(8, Len(normalized_history))
        IN  /\ conversation =
                   PromptHead \o JoinFrom([i \in 1..k |-> TurnLine(used[i])], 1, k)
                   \o PromptTail(message)
            /\ Len(normalized_history) >= 8 =>
                   \A older \in { << >>,
                                  << [role |-> "user", content |-> <<"o", "l", "d">>] >>,
                                  << [role |-> "assistant", content |-> <<"o", "l", "d", "e", "r">>],
                                     [role |-> "user", content |-> <<"o", "l", "d">>] >> } :
                       Conversation(message,
                                    older \o [i \in 1..k |-> used[i]]) = conversation

C3_Witness ==
    /\ status = "ok"
    /\ Len(normalized_history) > 8
    /\ \A i \in 2..Len(normalized_history) :
          normalized_history[i] # normalized_history[1]

\* C4: the prompt ends with "User: " + sanitize(message) + "\nAura:" and
\* nothing after it; with an empty history and an empty message it ends
\* with "User: \nAura:".
C4_PromptEndsWithOpenTurn ==
    status = "ok" =>
        /\ EndsWith(conversation,
                    <<"U", "s", "e", "r", ":", " ">> \o sanitize(message) \o <<"\n">> \o Marker)
        /\ (message = << >> /\ normalized_history = << >>) =>
               EndsWith(conversation, <<"\n", "\n", "U", "s", "e", "r", ":", " ", "\n", "A", "u", "r", "a", ":">>)

C4_Witness ==
    /\ status = "ok"
    /\ message = << >>
    /\ history.items = << >>
    /\ EndsWith(conversation, <<"U", "s", "e", "r", ":", " ", "\n", "A", "u", "r", "a", ":">>)

\* The order-preserving normalization of the request's entries: a dict as
\* it is, a string that is not blank as a user turn, a blank string dropped.
KeptEntries == 
    {i \in 1..Len(history.items) :
        \/ history.items[i].kind = "dict"
        \/ StrStrip(history.items[i].str) # << >>}

ExpectedTurn(e) ==
    IF e.kind = "dict" THEN e.dict ELSE [role |-> "user", content |-> e.str]

ExpectedHistory ==
    [r \in 1..Cardinality(KeptEntries) |->
        ExpectedTurn(history.items[
            CHOOSE i \in KeptEntries : Cardinality({j \in KeptEntries : j <= i}) = r])]

\* C7: the normalized history is the request's history in its order, every
\* non-blank string a user turn with the string unchanged, every blank
\* string omitted, every dict passed through; the blank strings are removed
\* before the window of 8 is taken, so the prompt holds the last 8 of the
\* entries that remain.
C7_HistoryNormalized ==
    status = "ok" =>
        LET n == Cardinality(KeptEntries)
            k == Min(8, n)
        IN  /\ Len(normalized_history) = n
            /\ \A r \in 1..n : normalized_history[r] = ExpectedHistory[r]
            /\ \A i \in KeptEntries :
                  history.items[i].kind = "str" =>
                      normalized_history[Cardinality({j \in KeptEntries : j <= i})] =
                          [role |-> "user", content |-> history.items[i].str]
            /\ conversation =
                   PromptHead
                   \o JoinFrom([i \in 1..k |-> TurnLine(ExpectedHistory[n - k + i])], 1, k)
                   \o PromptTail(message)

C7_Witness ==
    /\ status = "ok"
    /\ Len(history.items) > 8
    /\ Len(normalized_history) = 8
    /\ \E i \in 1..Len(history.items) : i \notin KeptEntries
    /\ \E i \in KeptEntries : history.items[i].kind = "str"
    /\ \E i \in KeptEntries : history.items[i].kind = "dict"

\* C8: chat is total: no request the schema accepts (a None history, a dict
\* without "role" or "content") makes normalization or prompt assembly raise.
C8_ChatNeverRaises == status # "error"

\* C9: every turn of the window is emitted as "<RoleLabel>: <sanitized
\* content>\n", the label "User" exactly when the role is the string "user"
\* and "Aura" for every other role.
C9_RoleLabels ==
    status = "ok" =>
        LET used == LastTurns(normalized_history)
            line(turn) ==
                (IF turn.role = "user" THEN <<"U", "s", "e", "r">> ELSE <<"A", "u", "r", "a">>)
                \o <<":", " ">> \o sanitize(turn.content) \o <<"\n">>
        IN  conversation =
                PromptHead
                \o JoinFrom([i \in 1..Len(used) |-> line(used[i])], 1, Len(used))
                \o PromptTail(message)

C9_Witness ==
    /\ status = "ok"
    /\ \E i \in 1..Len(normalized_history) : normalized_history[i].role = "User"
    /\ \E i \in 1..Len(normalized_history) : normalized_history[i].role = "user"

\* C10: the reply is the generated continuation, trimmed and passed through
\* the question-mark filter: nothing of the prompt, and all of the
\* continuation.
C10_ReplyIsContinuation ==
    status = "ok" => reply = QuestionLimit(StrStrip(continuation))

\* The indices at which the marker occurs in the decoded text.
MarkerAt == {i \in 1..Len(decoded) : MatchAt(decoded, i, Marker)}

\* C5: the extracted segment is the trimmed text after the last "Aura:" of
\* the decoded text, the trimmed whole text when there is no marker; a text
\* ending in "Aura: Hello there" gives "Hello there".
C5_SegmentAfterLastMarker ==
    status = "ok" =>
        /\ response =
               StrStrip(IF MarkerAt = {} THEN decoded
                        ELSE SubSeq(decoded,
                                    (CHOOSE i \in MarkerAt : \A j \in MarkerAt : j <= i)
                                        + Len(Marker),
                                    Len(decoded)))
        /\ EndsWith(decoded, <<"A", "u", "r", "a", ":", " ", "H", "e", "l", "l", "o", " ", "t", "h", "e", "r", "e">>) => response = <<"H", "e", "l", "l", "o", " ", "t", "h", "e", "r", "e">>

C5_Witness ==
    /\ status = "ok"
    /\ Cardinality(MarkerAt) >= 2
    /\ response = <<"H", "e", "l", "l", "o", " ", "t", "h", "e", "r", "e">>

QuestionMarks(t) == {i \in 1..Len(t) : t[i] = "?"}

\* C6: with n > 1 question marks in the extracted text the first n - 1
\* become "." and the last stays where it is, with n <= 1 the text is
\* unchanged; the length and every other character are kept, and the reply
\* holds at most one "?".
C6_OnlyLastQuestionKept ==
    status = "ok" =>
        LET q == QuestionMarks(response)
        IN  /\ Len(reply) = Len(response)
            /\ \A i \in 1..Len(response) :
                  reply[i] =
                      IF i \in q /\ Cardinality(q) > 1 /\ \E j \in q : j > i
                      THEN "." ELSE response[i]
            /\ Cardinality(QuestionMarks(reply)) <= 1
            /\ Cardinality(q) <= 1 => reply = response
            /\ response = << "W", "h", "y", "?", " ", "W", "h", "a", "t", " ", "n", "o",
                             "w", "?", " ", "A", "r", "e", " ", "y", "o", "u", " ", "s",
                             "u", "r", "e", "?" >>
                   => reply = << "W", "h", "y", ".", " ", "W", "h", "a", "t", " ", "n", "o",
                                 "w", ".", " ", "A", "r", "e", " ", "y", "o", "u", " ", "s",
                                 "u", "r", "e", "?" >>

C6_Witness ==
    /\ status = "ok"
    /\ response = << "W", "h", "y", "?", " ", "W", "h", "a", "t", " ", "n", "o",
                     "w", "?", " ", "A", "r", "e", " ", "y", "o", "u", " ", "s",
                     "u", "r", "e", "?" >>
    /\ reply = << "W", "h", "y", ".", " ", "W", "h", "a", "t", " ", "n", "o",
                  "w", ".", " ", "A", "r", "e", " ", "y", "o", "u", " ", "s",
                  "u", "r", "e", "?" >>

====
